---- MODULE Spec2Model ----
(***************************************************************************)
(* Model of sebaubuntu_libs/libcompat/distutils/dir_util.py: mkpath() and  *)
(* copy_tree(), the process-wide cache _path_created, and the filesystem   *)
(* calls they make (os.path.isdir, os.listdir, os.mkdir, os.symlink, ...). *)
(*                                                                         *)
(* A path string is a record [abs, segs]: "/a/b" is [abs |-> TRUE,         *)
(* segs |-> <<"a","b">>], "a/./b" is [abs |-> FALSE, segs |-> <<"a",".",   *)
(* "b">>], "" is [abs |-> FALSE, segs |-> <<>>].  A filesystem is a        *)
(* function from the absolute locations that exist (sequences of names,    *)
(* <<>> the root) to nodes [kind, target].                                 *)
(***************************************************************************)
EXTENDS Integers, Sequences, FiniteSets, TLC

\* fs:           the filesystem
\* path_created: the keys of _path_created (line 17), absolute paths
\* lsorder:      the order in which os.listdir returns names
\* last:         the call that has just ended (its arguments, the state it
\*               began in, what it returned or raised), op "none" between calls
\* ncalls:       the calls made so far
\* thr, shared:  the two concurrent mkpath calls of SpecRace and whether they
\*               share one _path_created
VARIABLES fs, path_created, lsorder, last, ncalls, thr, shared

vars == <<fs, path_created, lsorder, last, ncalls, thr, shared>>

-----------------------------------------------------------------------------
(* Bounds *)

\* longest location (in components) the filesystem accepts (ENAMETOOLONG)
PathMax == 4
\* symlinks followed in one lookup before ELOOP
MaxLinks == 2
\* calls of mkpath / copy_tree made by the process
MaxCalls == 2
\* nodes an initial filesystem holds besides those of BaseFS
MaxNodes == 2

-----------------------------------------------------------------------------
(* Path strings: os.path *)

Cwd == <<"w">>

P(abs, segs) == [abs |-> abs, segs |-> segs]

Front(s) == SubSeq(s, 1, Len(s) - 1)

Last(s) == s[Len(s)]

RECURSIVE NormSegs(_, _, _)
NormSegs(abs, done, rest) ==
    IF rest = <<>> THEN done
    ELSE LET c == Head(rest) IN
         IF c = "." THEN NormSegs(abs, done, Tail(rest))
         ELSE IF c = ".." THEN
              IF done # <<>> /\ Last(done) # ".."
                THEN NormSegs(abs, Front(done), Tail(rest))
              ELSE IF abs THEN NormSegs(abs, done, Tail(rest))
              ELSE NormSegs(abs, Append(done, c), Tail(rest))
         ELSE NormSegs(abs, Append(done, c), Tail(rest))

\* os.path.normpath: "" and "a/.." become "."
normpath(p) ==
    LET s == NormSegs(p.abs, <<>>, p.segs) IN
    IF ~p.abs /\ s = <<>> THEN P(FALSE, <<".">>) ELSE P(p.abs, s)

\* os.path.join(head, d) for a single component d
join(head, d) == P(head.abs, Append(head.segs, d))

\* os.path.split: <<head, tail>>, tail "" when there is no last component
split(p) ==
    IF p.segs = <<>> THEN <<p, "">>
    ELSE <<P(p.abs, Front(p.segs)), Last(p.segs)>>

\* truth value of a path string: only "" is false
Truthy(p) == p.abs \/ p.segs # <<>>

\* os.path.abspath: the key of _path_created, as the sequence of components
abspath(p) ==
    IF p.abs THEN NormSegs(TRUE, <<>>, p.segs)
    ELSE NormSegs(TRUE, <<>>, Cwd \o p.segs)

-----------------------------------------------------------------------------
(* The filesystem *)

Node(kind, target) == [kind |-> kind, target |-> target]

NoPath == P(FALSE, <<>>)

DirNode == Node("dir", NoPath)

FileNode == Node("file", NoPath)

Exists(f, loc) == loc \in DOMAIN f

IsDirAt(f, loc) == Exists(f, loc) /\ f[loc].kind = "dir"

\* Walk the components of a lookup from location cur.  The result is
\* [ok, loc]: loc is the location the path denotes (it may not exist), ok is
\* FALSE when a component on the way is missing, is not a directory, or too
\* many symlinks were followed.
RECURSIVE Walk(_, _, _, _, _)
Walk(f, cur, rest, follow, fuel) ==
    IF rest = <<>> THEN [ok |-> TRUE, loc |-> cur]
    ELSE IF ~IsDirAt(f, cur) THEN [ok |-> FALSE, loc |-> cur]
    ELSE LET c == Head(rest)
             more == Tail(rest)
         IN  IF c = "." THEN Walk(f, cur, more, follow, fuel)
             ELSE IF c = ".." THEN
                  Walk(f, IF cur = <<>> THEN cur ELSE Front(cur), more, follow, fuel)
             ELSE LET nxt == Append(cur, c) IN
                  IF Exists(f, nxt) /\ f[nxt].kind = "link" /\ (more # <<>> \/ follow)
                    THEN IF fuel = 0 THEN [ok |-> FALSE, loc |-> nxt]
                         ELSE LET t == f[nxt].target IN
                              Walk(f, IF t.abs THEN <<>> ELSE cur, t.segs \o more,
                                   follow, fuel - 1)
                    ELSE Walk(f, nxt, more, follow, fuel)

Resolve(f, p, follow) ==
    Walk(f, IF p.abs THEN <<>> ELSE Cwd, p.segs, follow, MaxLinks)

\* os.path.isdir (follows symlinks)
isdir(f, p) == LET r == Resolve(f, p, TRUE) IN r.ok /\ IsDirAt(f, r.loc)

\* os.path.islink
islink(f, p) ==
    LET r == Resolve(f, p, FALSE) IN
    r.ok /\ Exists(f, r.loc) /\ f[r.loc].kind = "link"

\* os.path.lexists
lexists(f, p) == LET r == Resolve(f, p, FALSE) IN r.ok /\ Exists(f, r.loc)

\* os.readlink
readlink(f, p) == f[Resolve(f, p, FALSE).loc].target

AddNode(f, loc, node) ==
    [l \in DOMAIN f \cup {loc} |-> IF l = loc THEN node ELSE f[l]]

\* Create one node at p, as os.mkdir and os.symlink do: [errno, fs]
Create(f, p, node) ==
    LET r == Resolve(f, p, FALSE) IN
    IF ~r.ok THEN [errno |-> "ENOENT", fs |-> f]
    ELSE IF Exists(f, r.loc) THEN [errno |-> "EEXIST", fs |-> f]
    ELSE IF Len(r.loc) > PathMax THEN [errno |-> "ENAMETOOLONG", fs |-> f]
    ELSE [errno |-> "ok", fs |-> AddNode(f, r.loc, node)]

\* os.mkdir(head, mode)
mkdir(f, p) == Create(f, p, DirNode)

\* os.symlink(link_dest, dst_name)
symlink(f, link_dest, p) == Create(f, p, Node("link", link_dest))

RECURSIVE SortedBy(_, _)
SortedBy(order, S) ==
    IF order = <<>> THEN <<>>
    ELSE (IF Head(order) \in S THEN <<Head(order)>> ELSE <<>>)
         \o SortedBy(Tail(order), S)

\* os.listdir of a path that is a directory, in the order the filesystem
\* returns the names
listdir(f, order, p) ==
    LET d == Resolve(f, p, TRUE).loc IN
    SortedBy(order, {c \in {order[i] : i \in 1..Len(order)} : Exists(f, Append(d, c))})

-----------------------------------------------------------------------------
(* The state a call runs in and leaves behind *)

NoErr == "none"

\* w.fs: the filesystem; w.cache: the keys of _path_created; w.log: the
\* lines handed to LOGI; w.mkdirs: the os.mkdir calls made; w.copied: the
\* destinations handed to copy_file; w.visited: the src of every copy_tree
\* invocation; w.depth: the deepest copy_tree recursion reached; w.err: the
\* exception that ended the call
World(f, cache) ==
    [fs |-> f, cache |-> cache, log |-> <<>>, mkdirs |-> <<>>, copied |-> <<>>,
     visited |-> <<>>, depth |-> 0, err |-> NoErr]

Raise(w, e) == [w EXCEPT !.err = e]

-----------------------------------------------------------------------------
(* mkpath *)

\* the value None passed as 'name'
None == [none |-> TRUE]

\* Climb with 'tails.append(tail)' in place of 'tails.insert(0, tail)'
RECURSIVE Climb_PushBack(_, _, _, _)
Climb_PushBack(f, head, tail, tails) ==
    IF Truthy(head) /\ tail # "" /\ ~isdir(f, head)
      THEN LET s == split(head) IN Climb_PushBack(f, s[1], s[2], tails \o <<s[2]>>)
      ELSE <<head, tails>>

\* lines 58-60: climb until 'head' is a directory; <<head, tails>>
RECURSIVE Climb(_, _, _, _)
Climb(f, head, tail, tails) ==
    IF Truthy(head) /\ tail # "" /\ ~isdir(f, head)
      THEN LET s == split(head) IN Climb(f, s[1], s[2], <<s[2]>> \o tails)
      ELSE <<head, tails>>

\* MkdirFails without the tolerance of EEXIST
MkdirFails_NoTolerance(errno, f, head) == TRUE

\* lines 77-83: the except clause of os.mkdir
MkdirFails(errno, f, head) == ~(errno = "EEXIST" /\ isdir(f, head))

\* MkLevel with line 86 inside 'if not dry_run': a dry run records nothing
MkLevel_DryNoRecord(head, verbose, dry_run, w, created) ==
    LET abs_head == abspath(head) IN
    IF abs_head \in w.cache THEN [w |-> w, out |-> created]
    ELSE LET w1 == IF verbose >= 1
                     THEN [w EXCEPT !.log = Append(@, <<"creating", head>>)]
                     ELSE w
         IN  IF dry_run THEN [w |-> w1, out |-> created]
               ELSE LET m == mkdir(w1.fs, head)
                        w2 == [w1 EXCEPT !.fs = m.fs, !.mkdirs = Append(@, head)]
                    IN  IF m.errno # "ok" /\ ~(m.errno = "EEXIST" /\ isdir(m.fs, head))
                          THEN [w |-> Raise(w2, "DistutilsFileError: could not create"),
                                out |-> created]
                          ELSE [w |-> [w2 EXCEPT !.cache = @ \cup {abs_head}],
                                out |-> Append(created, head)]

\* MkLevel with line 86 under 'else' of 'if not dry_run': a directory that
\* was created is not recorded
MkLevel_CreatedNotRecorded(head, verbose, dry_run, w, created) ==
    LET abs_head == abspath(head) IN
    IF abs_head \in w.cache THEN [w |-> w, out |-> created]
    ELSE LET w1 == IF verbose >= 1
                     THEN [w EXCEPT !.log = Append(@, <<"creating", head>>)]
                     ELSE w
         IN  IF dry_run
               THEN [w |-> [w1 EXCEPT !.cache = @ \cup {abs_head}], out |-> created]
               ELSE LET m == mkdir(w1.fs, head)
                        w2 == [w1 EXCEPT !.fs = m.fs, !.mkdirs = Append(@, head)]
                    IN  IF m.errno # "ok" /\ ~(m.errno = "EEXIST" /\ isdir(m.fs, head))
                          THEN [w |-> Raise(w2, "DistutilsFileError: could not create"),
                                out |-> created]
                          ELSE [w |-> w2, out |-> Append(created, head)]

\* lines 67-86: one iteration of 'for d in tails'; [w, out]
MkLevel(head, verbose, dry_run, w, created) ==
    LET abs_head == abspath(head) IN
    IF abs_head \in w.cache THEN [w |-> w, out |-> created]
    ELSE LET w1 == IF verbose >= 1
                     THEN [w EXCEPT !.log = Append(@, <<"creating", head>>)]
                     ELSE w
         IN  IF dry_run
               THEN [w |-> [w1 EXCEPT !.cache = @ \cup {abs_head}], out |-> created]
               ELSE LET m == mkdir(w1.fs, head)
                        w2 == [w1 EXCEPT !.fs = m.fs, !.mkdirs = Append(@, head)]
                    IN  IF m.errno # "ok" /\ MkdirFails(m.errno, m.fs, head)
                          THEN [w |-> Raise(w2, "DistutilsFileError: could not create"),
                                out |-> created]
                          ELSE [w |-> [w2 EXCEPT !.cache = @ \cup {abs_head}],
                                out |-> Append(created, head)]

\* lines 65-87: 'for d in tails'
RECURSIVE MkLevels(_, _, _, _, _, _)
MkLevels(head, tails, verbose, dry_run, w, created) ==
    IF tails = <<>> \/ w.err # NoErr THEN [w |-> w, out |-> created]
    ELSE LET h == join(head, Head(tails))
             r == MkLevel(h, verbose, dry_run, w, created)
         IN  MkLevels(h, Tail(tails), verbose, dry_run, r.w, r.out)

\* lines 50-53: the two early returns
AlreadyThere(f, cache, name) ==
    isdir(f, name) \/ name = NoPath \/ abspath(name) \in cache

\* mkpath(name, mode, verbose, dry_run) run in w; 'mode' is only handed to
\* os.mkdir.  The result is [w, out]: the state left and the list returned.
mkpath(name0, verbose, dry_run, w) ==
    IF name0 = None
      THEN [w |-> Raise(w, "DistutilsInternalError"), out |-> <<>>]
    ELSE LET name == normpath(name0) IN
         IF AlreadyThere(w.fs, w.cache, name) THEN [w |-> w, out |-> <<>>]
         ELSE LET s == split(name)
                  c == Climb(w.fs, s[1], s[2], <<s[2]>>)
              IN  MkLevels(c[1], c[2], verbose, dry_run, w, <<>>)

-----------------------------------------------------------------------------
(* copy_tree *)

\* n.startswith('.nfs')
NfsNames == {".nfs0"}

IsNfsName(n) == n \in NfsNames

\* file_util.copy_file(src, dst, preserve_mode, preserve_times, update,
\* verbose, dry_run): copies one regular file; [err, fs].  It fails when src
\* is not a regular file or dst cannot be written as one.
copy_file(f, src_name, dst_name, update, dry_run) ==
    LET s == Resolve(f, src_name, TRUE)
        d == Resolve(f, dst_name, TRUE)
    IN  IF ~(s.ok /\ Exists(f, s.loc) /\ f[s.loc].kind = "file")
          THEN [err |-> TRUE, fs |-> f]
        ELSE IF dry_run THEN [err |-> FALSE, fs |-> f]
        ELSE IF ~d.ok \/ IsDirAt(f, d.loc) \/ Len(d.loc) > PathMax
          THEN [err |-> TRUE, fs |-> f]
        ELSE IF update /\ Exists(f, d.loc) THEN [err |-> FALSE, fs |-> f]
        ELSE [err |-> FALSE, fs |-> AddNode(f, d.loc, FileNode)]

\* the flags of a copy_tree call that the recursion hands down unchanged
Opt(preserve_symlinks, update, verbose, dry_run) ==
    [preserve_symlinks |-> preserve_symlinks, update |-> update,
     verbose |-> verbose, dry_run |-> dry_run]

\* SrcNotDir testing that src exists instead of that it is a directory
SrcNotDir_Exists(f, src, dry_run) == ~dry_run /\ ~lexists(f, src)

\* line 120
SrcNotDir(f, src, dry_run) == ~dry_run /\ ~isdir(f, src)

\* lines 143-149: the entry is recreated as a symlink; [w, out]
CopyLink(src_name, dst_name, o, w) ==
    LET link_dest == readlink(w.fs, src_name)
        w1 == IF o.verbose >= 1
                THEN [w EXCEPT !.log = Append(@, <<"linking", dst_name, link_dest>>)]
                ELSE w
    IN  IF o.dry_run THEN [w |-> w1, out |-> <<dst_name>>]
        ELSE LET m == symlink(w1.fs, link_dest, dst_name) IN
             IF m.errno # "ok"
               THEN [w |-> Raise(w1, "OSError: symlink"), out |-> <<>>]
               ELSE [w |-> [w1 EXCEPT !.fs = m.fs], out |-> <<dst_name>>]

\* lines 164-174: the entry is handed to copy_file; [w, out]
CopyLeaf(src_name, dst_name, o, w) ==
    LET c == copy_file(w.fs, src_name, dst_name, o.update, o.dry_run)
        w1 == [w EXCEPT !.copied = Append(@, dst_name), !.fs = c.fs]
    IN  IF c.err THEN [w |-> Raise(w1, "DistutilsFileError: copy_file"), out |-> <<>>]
        ELSE [w |-> w1, out |-> <<dst_name>>]

\* EntryKind with the os.path.isdir test ahead of the symlink test
EntryKind_DirFirst(f, src_name, n, o) ==
    IF IsNfsName(n) THEN "skip"
    ELSE IF isdir(f, src_name) THEN "dir"
    ELSE IF o.preserve_symlinks /\ islink(f, src_name) THEN "link"
    ELSE "file"

\* lines 139-164: the branch an entry takes
EntryKind(f, src_name, n, o) ==
    IF IsNfsName(n) THEN "skip"
    ELSE IF o.preserve_symlinks /\ islink(f, src_name) THEN "link"
    ELSE IF isdir(f, src_name) THEN "dir"
    ELSE "file"

RECURSIVE copy_tree(_, _, _, _, _, _)
RECURSIVE CopyEntries(_, _, _, _, _, _, _, _)

\* lines 135-176: 'for n in names'; [w, out]
CopyEntries(src, dst, names, o, order, w, outputs, depth) ==
    IF names = <<>> \/ w.err # NoErr THEN [w |-> w, out |-> outputs]
    ELSE LET n == Head(names)
             src_name == join(src, n)
             dst_name == join(dst, n)
             kind == EntryKind(w.fs, src_name, n, o)
             r == CASE kind = "skip" -> [w |-> w, out |-> <<>>]
                    [] kind = "link" -> CopyLink(src_name, dst_name, o, w)
                    [] kind = "dir" ->
                         copy_tree(src_name, dst_name, o, order, w, depth + 1)
                    [] OTHER -> CopyLeaf(src_name, dst_name, o, w)
         IN  CopyEntries(src, dst, Tail(names), o, order, r.w, outputs \o r.out, depth)

\* lines 122-128: os.listdir and its except clause; [err, names]
Listing(f, order, src, dry_run) ==
    IF isdir(f, src) THEN [err |-> FALSE, names |-> listdir(f, order, src)]
    ELSE IF dry_run THEN [err |-> FALSE, names |-> <<>>]
    ELSE [err |-> TRUE, names |-> <<>>]

\* copy_tree(src, dst, preserve_mode, preserve_times, preserve_symlinks,
\* update, verbose, dry_run) run in w at recursion depth 'depth'; [w, out].
\* preserve_mode and preserve_times are only handed to copy_file.
copy_tree(src, dst, o, order, w, depth) ==
    LET w0 == [w EXCEPT !.visited = Append(@, src),
                        !.depth = IF depth > @ THEN depth ELSE @]
        l == Listing(w0.fs, order, src, o.dry_run)
    IN  IF SrcNotDir(w0.fs, src, o.dry_run)
          THEN [w |-> Raise(w0, "DistutilsFileError: cannot copy tree"), out |-> <<>>]
        ELSE IF l.err
          THEN [w |-> Raise(w0, "DistutilsFileError: error listing files"), out |-> <<>>]
        ELSE LET m == IF o.dry_run THEN [w |-> w0, out |-> <<>>]
                      ELSE mkpath(dst, o.verbose, FALSE, w0)
             IN  IF m.w.err # NoErr THEN [w |-> m.w, out |-> <<>>]
                 ELSE CopyEntries(src, dst, l.names, o, order, m.w, <<>>, depth)

-----------------------------------------------------------------------------
(* The process: a sequence of calls *)

Abs(segs) == P(TRUE, segs)

Rel(segs) == P(FALSE, segs)

\* the locations an initial filesystem may populate
Locs == {<<"a">>, <<"b">>, <<"a", "a">>, <<"a", "b">>, <<"a", ".nfs0">>}

LinkTargets == {Abs(<<"w">>), Abs(<<"w", "f">>), Abs(<<"b">>)}

Nodes == {DirNode, FileNode} \cup {Node("link", t) : t \in LinkTargets}

\* what every filesystem holds: the root, the working directory and a file
\* in it
BaseFS ==
    [l \in {<<>>, Cwd, Append(Cwd, "f")} |-> IF l = Append(Cwd, "f") THEN FileNode ELSE DirNode]

WellFormed(f) ==
    /\ \A l \in DOMAIN BaseFS : f[l] = BaseFS[l]
    /\ \A l \in DOMAIN f : l # <<>> => IsDirAt(f, Front(l))

InitFS ==
    UNION {{f \in [S \cup DOMAIN BaseFS -> Nodes] : WellFormed(f)} :
             S \in {T \in SUBSET Locs : Cardinality(T) <= MaxNodes}}

Orders == {<<"a", "b", ".nfs0", "f", "w">>, <<".nfs0", "f", "b", "a", "w">>}

\* the 'name' arguments of mkpath
MkNames ==
    {Abs(<<"a">>), Abs(<<"a", "b">>), Abs(<<"a", "b", "a">>), Abs(<<"b">>),
     Rel(<<>>), Rel(<<"b", "a">>), Rel(<<"..", "a", "b">>),
     Abs(<<"a", "..", "b", "a">>)}

\* the 'src' and 'dst' arguments of copy_tree
SrcNames == {Abs(<<"a">>)}

DstNames == {Abs(<<"b">>), Abs(<<"a", "b">>), Abs(<<"a", "b", "a">>)}

NoOpt == Opt(FALSE, FALSE, 0, FALSE)

\* what the process remembers of the call that has just ended: the
\* arguments, the state it started in, and what it returned or raised
Call(op, name, dst, o, pre, r) ==
    [op |-> op, name |-> name, dst |-> dst, opt |-> o,
     pre_fs |-> pre.fs, pre_cache |-> pre.cache,
     out |-> r.out, err |-> r.w.err, log |-> r.w.log, mkdirs |-> r.w.mkdirs,
     copied |-> r.w.copied, visited |-> r.w.visited, depth |-> r.w.depth]

NoCall ==
    Call("none", NoPath, NoPath, NoOpt, World(BaseFS, {}),
         [w |-> World(BaseFS, {}), out |-> <<>>])

Init ==
    /\ fs \in InitFS
    /\ path_created = {}
    /\ lsorder \in Orders
    /\ last = NoCall
    /\ ncalls = 0
    /\ thr = <<>>
    /\ shared = FALSE

\* the process calls mkpath(name, verbose=..., dry_run=...)
MkpathCall ==
    /\ last.op = "none"
    /\ ncalls < MaxCalls
    /\ \E name \in MkNames \cup {None}, verbose \in 0..1, dry_run \in BOOLEAN :
         \E r \in {mkpath(name, verbose, dry_run, World(fs, path_created))} :
             /\ fs' = r.w.fs
             /\ path_created' = r.w.cache
             /\ last' = Call("mkpath", name, NoPath, Opt(FALSE, FALSE, verbose, dry_run),
                             World(fs, path_created), r)
    /\ ncalls' = ncalls + 1
    /\ UNCHANGED <<lsorder, thr, shared>>

\* the process calls copy_tree(src, dst, ...)
CopyTreeCall ==
    /\ last.op = "none"
    /\ ncalls < MaxCalls
    /\ \E src \in SrcNames, dst \in DstNames, preserve_symlinks \in BOOLEAN,
          update \in BOOLEAN, verbose \in 0..1, dry_run \in BOOLEAN :
         \E r \in {copy_tree(src, dst, Opt(preserve_symlinks, update, verbose, dry_run),
                             lsorder, World(fs, path_created), 0)} :
             /\ fs' = r.w.fs
             /\ path_created' = r.w.cache
             /\ last' = Call("copy_tree", src, dst,
                             Opt(preserve_symlinks, update, verbose, dry_run),
                             World(fs, path_created), r)
    /\ ncalls' = ncalls + 1
    /\ UNCHANGED <<lsorder, thr, shared>>

\* the caller takes what the call returned or raised and goes on
Resume ==
    /\ last.op # "none"
    /\ last' = NoCall
    /\ UNCHANGED <<fs, path_created, lsorder, ncalls, thr, shared>>

Next == MkpathCall \/ CopyTreeCall \/ Resume

Spec == Init /\ [][Next]_vars

\* a process that calls only mkpath, which never lists a directory
InitMk == Init /\ lsorder = CHOOSE o \in Orders : TRUE

NextMk == MkpathCall \/ Resume

SpecMk == InitMk /\ [][NextMk]_vars

\* a process that calls only copy_tree
NextCopy == CopyTreeCall \/ Resume

SpecCopy == Init /\ [][NextCopy]_vars

-----------------------------------------------------------------------------
(* What the claims speak of *)

\* the levels of a path, shallowest first: "/a/b" has the levels "/a", "/a/b"
Levels(p) == [i \in 1..Len(p.segs) |-> P(p.abs, SubSeq(p.segs, 1, i))]

\* the directory a path's first level hangs from
Anchor(p) == P(p.abs, <<>>)

Range(s) == {s[i] : i \in 1..Len(s)}

\* the calls whose 'name' is another spelling of the same absolute path
SameAbs(name) == {m \in MkNames : abspath(normpath(m)) = abspath(normpath(name))}

\* a mkpath call with these arguments, made now
Again(name, verbose, dry_run) == mkpath(name, verbose, dry_run, World(fs, path_created))

\* such a call does nothing: nothing returned, no os.mkdir, no change
NoOp(r) ==
    /\ r.w.err = NoErr
    /\ r.out = <<>>
    /\ r.w.mkdirs = <<>>
    /\ r.w.fs = fs

MkpathReturned == last.op = "mkpath" /\ last.name # None /\ last.err = NoErr

\* the levels of the call's path that were no directory when it began
NotDirBefore ==
    LET lv == Levels(normpath(last.name)) IN
    {lv[i] : i \in {j \in DOMAIN lv : ~isdir(last.pre_fs, lv[j])}}

\* C1: a mkpath call with dry_run off that returns leaves the path and every
\* ancestor of it existing as a directory, whatever calls came before.
C1_PathExistsAfterReturn ==
    (MkpathReturned /\ ~last.opt.dry_run) =>
        \A l \in Range(Levels(normpath(last.name))) : isdir(fs, l)

\* C2: a copy_tree call with dry_run off that returns leaves dst existing as
\* a directory, whatever calls came before.
C2_DstExistsAfterReturn ==
    (last.op = "copy_tree" /\ ~last.opt.dry_run /\ last.err = NoErr) =>
        isdir(fs, last.dst)

\* the number k of leading levels of n that are directories in f, when the
\* remaining levels are all missing, untouched by the cache and within the
\* filesystem's length limit; -1 otherwise
DirLevels(f, cache, n) ==
    LET lv == Levels(n)
        ok(k) ==
          /\ \A i \in 1..k : isdir(f, lv[i])
          /\ \A i \in (k + 1)..Len(lv) : ~lexists(f, lv[i]) /\ abspath(lv[i]) \notin cache
          /\ Len(Resolve(f, IF k = 0 THEN Anchor(n) ELSE lv[k], TRUE).loc) + Len(lv) - k
                <= PathMax
        ks == {k \in 0..(Len(lv) - 1) : ok(k)}
    IN  IF ks = {} THEN -1 ELSE CHOOSE k \in ks : TRUE

C3_Case ==
    /\ last.op = "mkpath" /\ last.name # None /\ ~last.opt.dry_run
    /\ DirLevels(last.pre_fs, last.pre_cache, normpath(last.name)) >= 0

\* C3: when the N deepest levels of p are missing and no earlier call touched
\* them, mkpath(p) with dry_run off makes one os.mkdir per level, creates
\* exactly those N directories and returns them shallowest first, each the
\* parent of the next; a second call with the same absolute path returns an
\* empty list and makes no os.mkdir.
C3_CreatesMissingLevels ==
    C3_Case =>
        LET n == normpath(last.name)
            lv == Levels(n)
            k == DirLevels(last.pre_fs, last.pre_cache, n)
            want == SubSeq(lv, k + 1, Len(lv))
            made == DOMAIN fs \ DOMAIN last.pre_fs
        IN  /\ last.err = NoErr
            /\ last.out = want
            /\ last.mkdirs = want
            /\ \A i \in 1..(Len(last.out) - 1) : split(last.out[i + 1])[1] = last.out[i]
            /\ Cardinality(made) = Len(want)
            /\ made = {Resolve(fs, l, TRUE).loc : l \in Range(want)}
            /\ \A l \in made : fs[l] = DirNode
            /\ \A l \in DOMAIN last.pre_fs : fs[l] = last.pre_fs[l]
            /\ \A m \in SameAbs(last.name), v \in 0..1, d \in BOOLEAN : NoOp(Again(m, v, d))

\* C3 witness: two levels were missing and both were created, under a name
\* that has another spelling
C3_Witness ==
    /\ C3_Case
    /\ Len(last.out) = 2
    /\ Cardinality(SameAbs(last.name)) > 1

\* C4 as stated: on a normal return the cache holds the absolute path of the
\* target, also of a target that was a directory when the call began.
C4_TargetCached == MkpathReturned => abspath(normpath(last.name)) \in path_created

\* C4 as amended: on a normal return the cache holds the absolute path of
\* every level that was no directory when the call began and of every
\* directory the call returns as created, and a later call with the same
\* absolute path does nothing.
C4_LevelsCached ==
    MkpathReturned =>
        /\ \A l \in NotDirBefore \cup Range(last.out) : abspath(l) \in path_created
        /\ \A m \in SameAbs(last.name), v \in 0..1, d \in BOOLEAN : NoOp(Again(m, v, d))

\* C4 witness: a call under a relative name created directories
C4_Witness ==
    /\ MkpathReturned
    /\ ~last.name.abs
    /\ last.out # <<>>
    /\ last.pre_cache = {}

C5_Case == last.op = "mkpath" /\ last.name # None /\ last.opt.dry_run

\* C5: mkpath(p, dry_run=True) leaves the filesystem unchanged and returns an
\* empty list, yet records each missing level in the cache, so that a second
\* dry-run call with the same path logs no "creating" line.
C5_DryRunCachesOnly ==
    C5_Case =>
        /\ last.err = NoErr
        /\ fs = last.pre_fs
        /\ last.out = <<>>
        /\ last.mkdirs = <<>>
        /\ \A l \in NotDirBefore : abspath(l) \in path_created
        /\ \A m \in SameAbs(last.name) : Again(m, 1, TRUE).w.log = <<>>

\* C5 witness: a verbose dry-run call logged the creation of two levels
C5_Witness ==
    /\ C5_Case
    /\ last.opt.verbose = 1
    /\ Len(last.log) = 2
    /\ Cardinality(NotDirBefore) = 2

CopyTreeEnded == last.op = "copy_tree"

\* C6: for an existing source directory and the same starting state, the
\* list copy_tree returns does not depend on dry_run or update.
C6_SameListWhateverFlags ==
    (CopyTreeEnded /\ last.err = NoErr /\ isdir(last.pre_fs, last.name)) =>
        \A d \in BOOLEAN, u \in BOOLEAN :
            LET r == copy_tree(last.name, last.dst,
                               [last.opt EXCEPT !.dry_run = d, !.update = u],
                               lsorder, World(last.pre_fs, last.pre_cache), 0)
            IN  r.w.err = NoErr => r.out = last.out

IsFileIn(f, p) ==
    LET r == Resolve(f, p, TRUE) IN r.ok /\ Exists(f, r.loc) /\ f[r.loc].kind = "file"

C7_Case == CopyTreeEnded /\ ~last.opt.dry_run /\ IsFileIn(last.pre_fs, last.name)

\* C7: copy_tree with dry_run off on a src that is a plain file raises the
\* "not a directory" DistutilsFileError and changes nothing: no file, symlink
\* or directory is created (dst neither) and the cache is as before.
C7_FileSrcFails ==
    C7_Case =>
        /\ last.err = "DistutilsFileError: cannot copy tree"
        /\ fs = last.pre_fs
        /\ path_created = last.pre_cache
        /\ last.out = <<>>
        /\ last.copied = <<>>
        /\ last.mkdirs = <<>>

\* C7 witness: the src was a plain file and the dst did not exist
C7_Witness ==
    /\ C7_Case
    /\ ~lexists(last.pre_fs, last.dst)
    /\ last.err # NoErr

\* the symlink entries of src when the call began
LinkEntries ==
    {n \in Range(listdir(last.pre_fs, lsorder, last.name)) :
        islink(last.pre_fs, join(last.name, n))}

Count(s, x) == Cardinality({i \in 1..Len(s) : s[i] = x})

\* the entry n of src came out as a symlink with the same target, was neither
\* walked into nor handed to copy_file, and is listed once
CopiedAsLink(n) ==
    LET src_name == join(last.name, n)
        dst_name == join(last.dst, n)
    IN  /\ islink(fs, dst_name)
        /\ readlink(fs, dst_name) = readlink(last.pre_fs, src_name)
        /\ Count(last.out, dst_name) = 1
        /\ Count(last.copied, dst_name) = 0
        /\ Count(last.visited, src_name) = 0

C8_Case ==
    /\ CopyTreeEnded /\ last.err = NoErr
    /\ last.opt.preserve_symlinks /\ ~last.opt.dry_run

\* C8 as stated: with preserve_symlinks on and dry_run off, every symlink
\* entry of src comes out as a symlink with the same target.
C8_EveryLinkCopiedAsLink == C8_Case => \A n \in LinkEntries : CopiedAsLink(n)

\* C8 as amended: every symlink entry of src whose name does not start with
\* ".nfs" comes out as a symlink with the same target.
C8_LinksCopiedAsLinks ==
    C8_Case => \A n \in LinkEntries : ~IsNfsName(n) => CopiedAsLink(n)

\* C8 witness: a symlink to a directory was copied as a symlink
C8_Witness ==
    /\ C8_Case
    /\ \E n \in LinkEntries :
         /\ ~IsNfsName(n)
         /\ isdir(last.pre_fs, join(last.name, n))
         /\ islink(fs, join(last.dst, n))

AllNames == Range(CHOOSE o \in Orders : TRUE)

\* the depth of the tree of directories below a location
RECURSIVE TreeDepth(_, _)
TreeDepth(f, loc) ==
    LET subs == {Append(loc, c) : c \in AllNames} \cap {l \in DOMAIN f : f[l].kind = "dir"}
        ds == {TreeDepth(f, l) : l \in subs}
    IN  IF subs = {} THEN 0 ELSE 1 + CHOOSE d \in ds : \A e \in ds : e <= d

NoLinks(f) == \A l \in DOMAIN f : f[l].kind # "link"

\* C10: the recursion of a copy_tree call with dry_run off never goes deeper
\* than the source tree was when the call began (stated for a filesystem
\* without symlinks, where that depth is the depth of the directories).
C10_DepthBoundedBySource ==
    (CopyTreeEnded /\ ~last.opt.dry_run /\ NoLinks(last.pre_fs)
       /\ isdir(last.pre_fs, last.name)) =>
        last.depth <= TreeDepth(last.pre_fs, Resolve(last.pre_fs, last.name, TRUE).loc)

-----------------------------------------------------------------------------
(* Two mkpath calls with dry_run off running at once: two threads of one   *)
(* process (shared = TRUE, one _path_created) or two processes (each its   *)
(* own).  A step is one filesystem call or one access to the cache.        *)

Threads == {"t1", "t2"}

RaceNames ==
    {Abs(<<"a">>), Abs(<<"a", "b">>), Abs(<<"a", "b", "a">>), Rel(<<"..", "a", "b">>)}

\* the initial filesystems that hold only directories besides BaseFS
RaceFS == {f \in InitFS : \A l \in DOMAIN f \ DOMAIN BaseFS : f[l] = DirNode}

\* a call about to run line 48
Enter(name0) ==
    [pc |-> "start", name |-> normpath(name0), head |-> NoPath, tail |-> "",
     tails |-> <<>>, created |-> <<>>, errno |-> "ok", lost |-> FALSE, cache |-> {}]

\* the cache thread t reads and writes
CacheOf(t) == IF shared THEN path_created ELSE thr[t].cache

InitRace ==
    /\ fs \in RaceFS
    /\ path_created = {}
    /\ lsorder = CHOOSE o \in Orders : TRUE
    /\ last = NoCall
    /\ ncalls = 0
    /\ shared \in BOOLEAN
    /\ thr \in [Threads -> {Enter(n) : n \in RaceNames}]

Step(t, new) ==
    /\ thr' = [thr EXCEPT ![t] = new]
    /\ UNCHANGED <<lsorder, last, ncalls, shared>>

\* lines 50-51
RStart(t) ==
    /\ thr[t].pc = "start"
    /\ Step(t, [thr[t] EXCEPT !.pc = IF isdir(fs, thr[t].name) \/ thr[t].name = NoPath
                                       THEN "done" ELSE "cached"])
    /\ UNCHANGED <<fs, path_created>>

\* lines 52-56
RCached(t) ==
    /\ thr[t].pc = "cached"
    /\ LET s == split(thr[t].name) IN
       Step(t, IF abspath(thr[t].name) \in CacheOf(t)
                 THEN [thr[t] EXCEPT !.pc = "done"]
                 ELSE [thr[t] EXCEPT !.pc = "climb", !.head = s[1], !.tail = s[2],
                                     !.tails = <<s[2]>>])
    /\ UNCHANGED <<fs, path_created>>

\* lines 58-60: one test of the while condition
RClimb(t) ==
    /\ thr[t].pc = "climb"
    /\ LET c == thr[t]
           s == split(c.head)
       IN  Step(t, IF Truthy(c.head) /\ c.tail # "" /\ ~isdir(fs, c.head)
                     THEN [c EXCEPT !.head = s[1], !.tail = s[2],
                                    !.tails = <<s[2]>> \o c.tails]
                     ELSE [c EXCEPT !.pc = "level"])
    /\ UNCHANGED <<fs, path_created>>

\* lines 65-71: the next d of tails, and the cache lookup
RLevel(t) ==
    /\ thr[t].pc = "level"
    /\ LET c == thr[t]
           h == join(c.head, Head(c.tails))
       IN  Step(t, IF c.tails = <<>> THEN [c EXCEPT !.pc = "done"]
                   ELSE [c EXCEPT !.head = h, !.tails = Tail(c.tails),
                                  !.pc = IF abspath(h) \in CacheOf(t)
                                           THEN "level" ELSE "mkdir"])
    /\ UNCHANGED <<fs, path_created>>

\* line 78: os.mkdir
RMkdir(t) ==
    /\ thr[t].pc = "mkdir"
    /\ \E m \in {mkdir(fs, thr[t].head)} :
         /\ fs' = m.fs
         /\ Step(t, [thr[t] EXCEPT !.errno = m.errno,
                                   !.pc = IF m.errno = "ok" THEN "record" ELSE "except"])
    /\ UNCHANGED path_created

\* lines 79-83: the except clause
RExcept(t) ==
    /\ thr[t].pc = "except"
    /\ Step(t, IF MkdirFails(thr[t].errno, fs, thr[t].head)
                 THEN [thr[t] EXCEPT !.pc = "raised"]
                 ELSE [thr[t] EXCEPT !.pc = "record", !.lost = TRUE])
    /\ UNCHANGED <<fs, path_created>>

\* lines 84-86
RRecord(t) ==
    /\ thr[t].pc = "record"
    /\ LET c == thr[t]
           key == abspath(c.head)
       IN  /\ path_created' = IF shared THEN path_created \cup {key} ELSE path_created
           /\ Step(t, [c EXCEPT !.pc = "level", !.created = Append(@, c.head),
                                !.cache = IF shared THEN @ ELSE @ \cup {key}])
    /\ UNCHANGED fs

NextRace ==
    \E t \in Threads :
        \/ RStart(t)
        \/ RCached(t)
        \/ RClimb(t)
        \/ RLevel(t)
        \/ RMkdir(t)
        \/ RExcept(t)
        \/ RRecord(t)

SpecRace == InitRace /\ [][NextRace]_vars

AllDone == \A t \in Threads : thr[t].pc = "done"

\* C9: two mkpath calls with dry_run off running at once on the same missing
\* path, or on paths sharing missing ancestors, never raise under any
\* interleaving, and once both have returned every level of both paths is a
\* directory.
C9_RaceIsTolerated ==
    /\ \A t \in Threads : thr[t].pc # "raised"
    /\ AllDone => \A t \in Threads : \A l \in Range(Levels(thr[t].name)) : isdir(fs, l)

\* C9 witness: both calls returned, and each lost an os.mkdir to the other
C9_Witness ==
    /\ AllDone
    /\ \A t \in Threads : thr[t].lost /\ thr[t].created # <<>>

====
